---------------------------- MODULE Spec2Model ----------------------------
(***************************************************************************)
(* Model of the keyframe animation engine of systc.py:                     *)
(*   AnimationParameter / Keyframe  (keyframe sequence, interpolation),    *)
(*   TimelineApp                    (parameter store, playhead, save/load).*)
(*                                                                         *)
(* Python floats are modelled as exact rationals <<n, d>> in lowest terms  *)
(* with d > 0, so that two equal numbers are equal TLA+ values.  Rounding  *)
(* of IEEE doubles is not modelled.                                        *)
(***************************************************************************)
EXTENDS Integers, Sequences, FiniteSets, TLC

(***************************************************************************)
(* Bounds of the model.                                                    *)
(***************************************************************************)
\* keyframes are handed to AnimationParameter.add_keyframe on the even frames
\* 0, 2, ..., 2 * MaxSlot, so that a segment has whole and half frames inside
MaxSlot == 1
\* AnimationParameter.add_keyframe is called while the list stays within
\* MaxKeyframes entries
MaxKeyframes == 2
\* the playhead of TimelineApp is moved within 0..MaxPlayhead
MaxPlayhead == 1

(***************************************************************************)
(* Float arithmetic, as exact rationals.                                   *)
(***************************************************************************)
Abs(x) == IF x < 0 THEN -x ELSE x

RECURSIVE GCD(_, _)
GCD(a, b) == IF b = 0 THEN a ELSE GCD(b, a % b)

\* float('nan'): no number, every comparison with it is false and every
\* sum, difference, product and quotient with it is nan again
NaN == <<0, 0>>

\* the rational n/d in lowest terms with a positive denominator; nan for d = 0
Rat(n, d) ==
    IF d = 0 THEN NaN
    ELSE LET s == IF d < 0 THEN -1 ELSE 1
             g == GCD(Abs(n), Abs(d))
         IN  <<(s * n) \div g, (s * d) \div g>>

Num(x) == x[1]
Den(x) == x[2]
\* an int used where a float is expected
Flt(i) == <<i, 1>>

RAdd(x, y) == Rat(Num(x) * Den(y) + Num(y) * Den(x), Den(x) * Den(y))
RSub(x, y) == Rat(Num(x) * Den(y) - Num(y) * Den(x), Den(x) * Den(y))
RMul(x, y) == Rat(Num(x) * Num(y), Den(x) * Den(y))
RDiv(x, y) == Rat(Num(x) * Den(y), Den(x) * Num(y))
RLt(x, y)  == Num(x) * Den(y) < Num(y) * Den(x)
RLe(x, y)  == x # NaN /\ y # NaN /\ Num(x) * Den(y) <= Num(y) * Den(x)
\* Python's builtin min(a, b) and max(a, b): the first argument wins a tie
RMin(a, b) == IF RLt(b, a) THEN b ELSE a
RMax(a, b) == IF RLt(a, b) THEN b ELSE a
\* math.floor(x), as an int
RFloor(x) == Num(x) \div Den(x)
\* x // y and x % y on floats: the quotient rounded down, as a float, and
\* the remainder x - (x // y) * y, which has the sign of y
RFloorDiv(x, y) == Flt(RFloor(RDiv(x, y)))
RMod(x, y) == RSub(x, RMul(RFloorDiv(x, y), y))
\* int(x): x rounded towards zero
Trunc(x) == IF Num(x) >= 0 THEN Num(x) \div Den(x) ELSE -((-Num(x)) \div Den(x))

(***************************************************************************)
(* class InterpolationType(Enum): member names and their values.           *)
(***************************************************************************)
InterpolationType ==
    <<"LINEAR", "BEZIER", "STEP", "EASE_IN", "EASE_OUT", "EASE_IN_OUT">>

InterpolationMembers == {InterpolationType[i] : i \in 1..Len(InterpolationType)}

\* interp.value
InterpolationValue(m) ==
    CASE m = "LINEAR"      -> "Linear"
      [] m = "BEZIER"      -> "Bezier"
      [] m = "STEP"        -> "Step"
      [] m = "EASE_IN"     -> "Ease In"
      [] m = "EASE_OUT"    -> "Ease Out"
      [] m = "EASE_IN_OUT" -> "Ease In-Out"

(***************************************************************************)
(* class Keyframe, class AnimationParameter.                               *)
(***************************************************************************)
\* Keyframe.__init__ (kf.selected only drives the drawing and is left out)
Keyframe(frame, value, interpolation) ==
    [frame |-> frame, value |-> value, interpolation |-> interpolation]

\* AnimationParameter.__init__
AnimationParameter(name, min_value, max_value, default_value) ==
    [name |-> name, min_value |-> min_value, max_value |-> max_value,
     default_value |-> default_value, keyframes |-> <<>>,
     color |-> "#4CAF50"]

\* insert kf behind every element whose frame is <= kf.frame (stable)
RECURSIVE InsertByFrame(_, _)
InsertByFrame(s, kf) ==
    IF s = <<>> THEN <<kf>>
    ELSE IF s[Len(s)].frame <= kf.frame THEN Append(s, kf)
    ELSE Append(InsertByFrame(SubSeq(s, 1, Len(s) - 1), kf), s[Len(s)])

\* list.sort(key=lambda kf: kf.frame): a stable sort by frame
RECURSIVE SortByFrame(_)
SortByFrame(s) ==
    IF s = <<>> THEN <<>>
    ELSE InsertByFrame(SortByFrame(SubSeq(s, 1, Len(s) - 1)), s[Len(s)])

\* [kf for kf in keyframes if kf.frame != frame]
WithoutFrame(keyframes, frame) ==
    SelectSeq(keyframes, LAMBDA kf : kf.frame # frame)

\* add_keyframe without the sort
add_keyframe_unsorted(p, frame, value, interpolation) ==
    [p EXCEPT !.keyframes =
        Append(WithoutFrame(p.keyframes, frame),
               Keyframe(frame, value, interpolation))]

\* add_keyframe without the removal of the keyframe at the same frame
add_keyframe_append(p, frame, value, interpolation) ==
    [p EXCEPT !.keyframes =
        SortByFrame(Append(p.keyframes, Keyframe(frame, value, interpolation)))]

\* AnimationParameter.add_keyframe
add_keyframe(p, frame, value, interpolation) ==
    [p EXCEPT !.keyframes =
        SortByFrame(Append(WithoutFrame(p.keyframes, frame),
                           Keyframe(frame, value, interpolation)))]

\* remove_keyframe that takes frame for a list index
remove_keyframe_by_index(p, frame) ==
    [p EXCEPT !.keyframes =
        [i \in 1..(Len(p.keyframes) - (IF frame < Len(p.keyframes) THEN 1 ELSE 0))
           |-> IF i <= frame THEN p.keyframes[i] ELSE p.keyframes[i + 1]]]

\* AnimationParameter.remove_keyframe
remove_keyframe(p, frame) ==
    [p EXCEPT !.keyframes = WithoutFrame(p.keyframes, frame)]

\* kf.frame <= frame, kf.frame >= frame, kf.frame == frame for a float frame
FrameLe(f, frame) == RLe(Flt(f), frame)
FrameGe(f, frame) == RLe(frame, Flt(f))
FrameEq(f, frame) == Flt(f) = frame

\* the loop of get_value_at_frame with kf.frame < frame
BeforeIndex_strict(keyframes, frame) ==
    LET S == {i \in 1..Len(keyframes) : RLt(Flt(keyframes[i].frame), frame)}
    IN  IF S = {} THEN 0 ELSE CHOOSE i \in S : \A j \in S : j <= i

\* the loop of get_value_at_frame: index of the last keyframe in list order
\* with kf.frame <= frame, 0 for None
BeforeIndex(keyframes, frame) ==
    LET S == {i \in 1..Len(keyframes) : FrameLe(keyframes[i].frame, frame)}
    IN  IF S = {} THEN 0 ELSE CHOOSE i \in S : \A j \in S : j <= i

\* index of the first keyframe in list order with kf.frame >= frame, 0 for None
AfterIndex(keyframes, frame) ==
    LET S == {i \in 1..Len(keyframes) : FrameGe(keyframes[i].frame, frame)}
    IN  IF S = {} THEN 0 ELSE CHOOSE i \in S : \A j \in S : i <= j

\* the if/elif chain with t left in frames: the division by the length of
\* the segment left out
Curve_unscaled(interpolation, kf1, kf2, frame) ==
    LET t == RSub(frame, Flt(kf1.frame))
        one == Flt(1)
        blend(u) == RAdd(kf1.value, RMul(RSub(kf2.value, kf1.value), u))
    IN  CASE interpolation = "STEP" -> kf1.value
          [] interpolation = "LINEAR" -> blend(t)
          [] interpolation = "EASE_IN" -> blend(RMul(t, t))
          [] interpolation = "EASE_OUT" ->
               blend(RSub(one, RMul(RSub(one, t), RSub(one, t))))
          [] interpolation = "EASE_IN_OUT" ->
               IF RLt(t, <<1, 2>>)
               THEN blend(RMul(RMul(Flt(2), t), t))
               ELSE blend(RSub(one, RMul(RMul(Flt(2), RSub(one, t)),
                                         RSub(one, t))))
          [] interpolation = "BEZIER" ->
               blend(RMul(RMul(t, t), RSub(Flt(3), RMul(Flt(2), t))))
          [] OTHER -> blend(t)

\* the if/elif chain with the Ease Out branch eased by the cube
Curve_ease_out_cubic(interpolation, kf1, kf2, frame) ==
    LET t == RDiv(RSub(frame, Flt(kf1.frame)), Flt(kf2.frame - kf1.frame))
        one == Flt(1)
        blend(u) == RAdd(kf1.value, RMul(RSub(kf2.value, kf1.value), u))
    IN  CASE interpolation = "STEP" -> kf1.value
          [] interpolation = "LINEAR" -> blend(t)
          [] interpolation = "EASE_IN" -> blend(RMul(t, t))
          [] interpolation = "EASE_OUT" ->
               blend(RSub(one, RMul(RMul(RSub(one, t), RSub(one, t)),
                                    RSub(one, t))))
          [] interpolation = "EASE_IN_OUT" ->
               IF RLt(t, <<1, 2>>)
               THEN blend(RMul(RMul(Flt(2), t), t))
               ELSE blend(RSub(one, RMul(RMul(Flt(2), RSub(one, t)),
                                         RSub(one, t))))
          [] interpolation = "BEZIER" ->
               blend(RMul(RMul(t, t), RSub(Flt(3), RMul(Flt(2), t))))
          [] OTHER -> blend(t)

\* the if/elif chain of interpolate over the interpolation type
Curve(interpolation, kf1, kf2, frame) ==
    LET t == RDiv(RSub(frame, Flt(kf1.frame)), Flt(kf2.frame - kf1.frame))
        one == Flt(1)
        blend(u) == RAdd(kf1.value, RMul(RSub(kf2.value, kf1.value), u))
    IN  CASE interpolation = "STEP" -> kf1.value
          [] interpolation = "LINEAR" -> blend(t)
          [] interpolation = "EASE_IN" -> blend(RMul(t, t))
          [] interpolation = "EASE_OUT" ->
               blend(RSub(one, RMul(RSub(one, t), RSub(one, t))))
          [] interpolation = "EASE_IN_OUT" ->
               IF RLt(t, <<1, 2>>)
               THEN blend(RMul(RMul(Flt(2), t), t))
               ELSE blend(RSub(one, RMul(RMul(Flt(2), RSub(one, t)),
                                         RSub(one, t))))
          [] interpolation = "BEZIER" ->
               blend(RMul(RMul(t, t), RSub(Flt(3), RMul(Flt(2), t))))
          [] OTHER -> blend(t)

\* interpolate that dispatches on the right keyframe's type
interpolate_right_mode(kf1, kf2, frame) ==
    IF kf1.frame = kf2.frame THEN kf1.value
    ELSE Curve(kf2.interpolation, kf1, kf2, frame)

\* interpolate without the Step branch
interpolate_no_step(kf1, kf2, frame) ==
    IF kf1.frame = kf2.frame THEN kf1.value
    ELSE Curve(IF kf1.interpolation = "STEP" THEN "LINEAR"
               ELSE kf1.interpolation, kf1, kf2, frame)

\* AnimationParameter.interpolate
interpolate(kf1, kf2, frame) ==
    IF kf1.frame = kf2.frame THEN kf1.value
    ELSE Curve(kf1.interpolation, kf1, kf2, frame)

\* get_value_at_frame that falls back to the default in front of the first
\* keyframe
get_value_at_frame_default_before(p, frame) ==
    IF p.keyframes = <<>> THEN p.default_value
    ELSE
      LET b == BeforeIndex(p.keyframes, frame)
          a == AfterIndex(p.keyframes, frame)
      IN  IF b # 0 /\ FrameEq(p.keyframes[b].frame, frame)
            THEN p.keyframes[b].value
          ELSE IF b = 0 THEN p.default_value
          ELSE IF a = 0 THEN p.keyframes[b].value
          ELSE interpolate(p.keyframes[b], p.keyframes[a], frame)

\* get_value_at_frame that returns min_value for an empty list
get_value_at_frame_min_if_empty(p, frame) ==
    IF p.keyframes = <<>> THEN p.min_value
    ELSE
      LET b == BeforeIndex(p.keyframes, frame)
          a == AfterIndex(p.keyframes, frame)
      IN  IF b # 0 /\ FrameEq(p.keyframes[b].frame, frame)
            THEN p.keyframes[b].value
          ELSE IF b = 0
            THEN (IF a # 0 THEN p.keyframes[a].value ELSE p.default_value)
          ELSE IF a = 0 THEN p.keyframes[b].value
          ELSE interpolate(p.keyframes[b], p.keyframes[a], frame)

\* AnimationParameter.get_value_at_frame
get_value_at_frame(p, frame) ==
    IF p.keyframes = <<>> THEN p.default_value
    ELSE
      LET b == BeforeIndex(p.keyframes, frame)
          a == AfterIndex(p.keyframes, frame)
      IN  IF b # 0 /\ FrameEq(p.keyframes[b].frame, frame)
            THEN p.keyframes[b].value
          ELSE IF b = 0
            THEN (IF a # 0 THEN p.keyframes[a].value ELSE p.default_value)
          ELSE IF a = 0 THEN p.keyframes[b].value
          ELSE interpolate(p.keyframes[b], p.keyframes[a], frame)

(***************************************************************************)
(* State.                                                                  *)
(*   param   one AnimationParameter object driven through its own methods  *)
(*   result  the last get_value_at_frame call on param since its keyframes *)
(*           were last changed: <<[frame, value]>>, or <<>> for none       *)
(*   last    the last mutating method called on param, whether a keyframe  *)
(*           existed at the frame it was called with, and its arguments    *)
(*           (kept until the next get_value_at_frame call)                 *)
(*                                                                         *)
(* TimelineApp.  A value that may be None is a sequence of length <= 1.    *)
(*   animation_parameters  the dict name -> AnimationParameter, as the     *)
(*                         sequence of its values in insertion order       *)
(*   param_listbox         the names shown in the parameter listbox        *)
(*   curselection          the listbox entry that is selected, or None     *)
(*   selected_parameter, current_frame, timeline_duration,                 *)
(*   current_frame_rate, markers, clips, dragging_keyframe                 *)
(*                         the attributes of the same name                 *)
(*   time_display          the text of time_display_var: the frame rate,   *)
(*                         the two frames and the two time strings of the  *)
(*                         last update_time_display that set it            *)
(*   drag_origin           the keyframes that the parameter of             *)
(*                         dragging_keyframe held when select_keyframe     *)
(*                         chose the keyframe, or None                     *)
(*   file                  the content of the timeline file last written   *)
(*                         or read, or None                                *)
(*   saved                 the document as it was when file was written    *)
(*   event                 the last handler that ran, whether it ran to    *)
(*                         its end, the (parameter, frame) pairs it handed *)
(*                         to AnimationParameter.add_keyframe, and the     *)
(*                         texts typed into the ParameterDialog it opened  *)
(***************************************************************************)
VARIABLES param, result, last,
          animation_parameters, param_listbox, curselection,
          selected_parameter, current_frame, timeline_duration,
          current_frame_rate, markers, clips, dragging_keyframe,
          time_display, drag_origin, file, saved, event

paramVars == <<param, result, last>>

appVars == <<animation_parameters, param_listbox, curselection,
             selected_parameter, current_frame, timeline_duration,
             current_frame_rate, markers, clips, dragging_keyframe,
             time_display, drag_origin, file, saved, event>>

vars == <<param, result, last,
          animation_parameters, param_listbox, curselection,
          selected_parameter, current_frame, timeline_duration,
          current_frame_rate, markers, clips, dragging_keyframe,
          time_display, drag_origin, file, saved, event>>

(***************************************************************************)
(* The dict animation_parameters: every value is stored under its name.    *)
(***************************************************************************)
Keys(d) == {d[i].name : i \in 1..Len(d)}

\* d[name]
Item(d, name) == d[CHOOSE i \in 1..Len(d) : d[i].name = name]

\* d[name] = p: an existing key keeps its position, a new key goes last
SetItem(d, name, p) ==
    IF name \in Keys(d)
    THEN [i \in 1..Len(d) |-> IF d[i].name = name THEN p ELSE d[i]]
    ELSE Append(d, p)

\* the first entry deleted, whatever its name
DelItem_first(d, name) == Tail(d)

\* del d[name]
DelItem(d, name) == SelectSeq(d, LAMBDA p : p.name # name)

\* self.parameter_colors
parameter_colors ==
    <<"#4CAF50", "#2196F3", "#FF9800", "#E91E63", "#9C27B0",
      "#00BCD4", "#8BC34A", "#FF5722", "#607D8B", "#795548">>

\* the new parameter stored over an existing one of the same name
AddParameter_overwrite(d, name, min_val, max_val, default_val) ==
    SetItem(d, name,
            [AnimationParameter(name, min_val, max_val, default_val)
               EXCEPT !.color = parameter_colors[(Len(d) % Len(parameter_colors)) + 1]])

\* the dict after add_animation_parameter(name, min_val, max_val, default_val)
AddParameter(d, name, min_val, max_val, default_val) ==
    IF name \in Keys(d) THEN d
    ELSE Append(d, [AnimationParameter(name, min_val, max_val, default_val)
                      EXCEPT !.color = parameter_colors[(Len(d) % Len(parameter_colors)) + 1]])

\* add_default_parameters
DefaultParameters ==
    AddParameter(
      AddParameter(
        AddParameter(
          AddParameter(
            AddParameter(<<>>, "Position X", Flt(-1000), Flt(1000), Flt(0)),
            "Position Y", Flt(-1000), Flt(1000), Flt(0)),
          "Scale", Flt(0), Flt(10), Flt(1)),
        "Rotation", Flt(-360), Flt(360), Flt(0)),
      "Opacity", Flt(0), Flt(100), Flt(100))

\* the record of a handler run that opened no ParameterDialog
Event(op, ok, inserted) ==
    [op |-> op, ok |-> ok, inserted |-> inserted, dialog |-> <<>>]

\* the record of a handler run that opened a ParameterDialog, with the texts
\* of its four entries at the last click on OK
EventDialog(op, ok, texts) ==
    [op |-> op, ok |-> ok, inserted |-> {}, dialog |-> <<texts>>]

\* frame_to_time with the minutes taken from all of total_seconds
frame_to_time_minutes(frame, rate) ==
    LET total_seconds == RDiv(Flt(frame), rate)
    IN  [hours |-> Trunc(RFloorDiv(total_seconds, Flt(3600))),
         minutes |-> Trunc(RFloorDiv(total_seconds, Flt(60))),
         seconds |-> Trunc(RMod(total_seconds, Flt(60))),
         frame_remainder |-> Trunc(RMod(Flt(frame), rate))]

\* frame_to_time with self.current_frame_rate = rate: the four numbers that
\* are formatted into "HH:MM:SS:FF"
frame_to_time(frame, rate) ==
    LET total_seconds == RDiv(Flt(frame), rate)
    IN  [hours |-> Trunc(RFloorDiv(total_seconds, Flt(3600))),
         minutes |-> Trunc(RFloorDiv(RMod(total_seconds, Flt(3600)), Flt(60))),
         seconds |-> Trunc(RMod(total_seconds, Flt(60))),
         frame_remainder |-> Trunc(RMod(Flt(frame), rate))]

\* f"Time: {time_str} / {duration_str}", with the arguments of the two calls
TimeDisplay(frame, duration, rate) ==
    [frame_rate |-> rate,
     frame |-> frame, time_str |-> frame_to_time(frame, rate),
     end_frame |-> duration - 1,
     duration_str |-> frame_to_time(duration - 1, rate)]

\* update_time_display up to time_display_var.set, when the handler calls it:
\* frame_to_time raises for a frame rate of 0 and for nan
update_time_display(called) ==
    time_display' =
       IF called /\ current_frame_rate' \notin {Flt(0), NaN}
       THEN TimeDisplay(current_frame', timeline_duration', current_frame_rate')
       ELSE time_display

\* TimelineApp.__init__
AppInit ==
    /\ animation_parameters = DefaultParameters
    /\ param_listbox = Keys(DefaultParameters)
    /\ curselection = <<>>
    /\ selected_parameter = <<>>
    /\ current_frame = 0
    /\ timeline_duration = 3600
    /\ current_frame_rate = Flt(30)
    /\ markers = <<>>
    /\ clips = <<>>
    /\ dragging_keyframe = <<>>
    /\ time_display = TimeDisplay(0, 3600, Flt(30))
    /\ drag_origin = <<>>
    /\ file = <<>>
    /\ saved = <<>>
    /\ event = Event("__init__", TRUE, {})

(***************************************************************************)
(* One AnimationParameter driven through its methods (SpecParam).          *)
(***************************************************************************)
\* inputs
LastFrame == 2 * MaxSlot
FrameInputs == {2 * k : k \in 0..MaxSlot}
\* remove_keyframe is called on every frame, the odd ones never hold a keyframe
RemoveInputs == 0..LastFrame
ValueInputs == {Flt(0), Flt(1)}
\* query frames, in half frames: -1/2, 0, 1/2, ..., LastFrame + 1/2
QueryFrames == {Rat(n, 2) : n \in (-1)..(LastFrame * 2 + 1)}

\* a record of a method call
Call(op, frame, value, interpolation, hit) ==
    [op |-> op, frame |-> frame, value |-> value,
     interpolation |-> interpolation, hit |-> hit]

HasFrame(keyframes, frame) ==
    \E i \in 1..Len(keyframes) : keyframes[i].frame = frame

\* the parameter of the spec's scenario: "Opacity", range [0, 100], default 100
InitParam ==
    /\ param = AnimationParameter("Opacity", Flt(0), Flt(100), Flt(100))
    /\ result = <<>>
    /\ last = Call("__init__", 0, Flt(0), "", FALSE)
    /\ AppInit

Param_add_keyframe(frame, value, interpolation) ==
    /\ Len(WithoutFrame(param.keyframes, frame)) < MaxKeyframes
    /\ param' = add_keyframe(param, frame, value, interpolation)
    /\ result' = <<>>
    /\ last' = Call("add_keyframe", frame, value, interpolation,
                    HasFrame(param.keyframes, frame))
    /\ UNCHANGED appVars

Param_remove_keyframe(frame) ==
    /\ param' = remove_keyframe(param, frame)
    /\ result' = <<>>
    /\ last' = Call("remove_keyframe", frame, Flt(0), "",
                    HasFrame(param.keyframes, frame))
    /\ UNCHANGED appVars

Param_get_value_at_frame(frame) ==
    /\ result' = <<[frame |-> frame, value |-> get_value_at_frame(param, frame)]>>
    /\ last' = Call(last.op, 0, Flt(0), "", last.hit)
    /\ UNCHANGED param
    /\ UNCHANGED appVars

NextParam ==
    \/ \E f \in FrameInputs, v \in ValueInputs, m \in InterpolationMembers :
          Param_add_keyframe(f, v, m)
    \/ \E f \in RemoveInputs : Param_remove_keyframe(f)
    \/ \E q \in QueryFrames : Param_get_value_at_frame(q)

SpecParam == InitParam /\ [][NextParam]_vars

(***************************************************************************)
(* TimelineApp: helpers.                                                   *)
(***************************************************************************)
\* self.animation_parameters[name] looked up through an attribute that may
\* be None
Selected == selected_parameter[1]

\* float(text) for the texts typed into the value entry: <<x>>, or <<>> for
\* ValueError
ParseFloat(text) ==
    CASE text = "150" -> <<Flt(150)>>
      [] text = "100" -> <<Flt(100)>>
      [] text = "50"  -> <<Flt(50)>>
      [] text = "24"  -> <<Flt(24)>>
      [] text = "2.5" -> <<<<5, 2>>>>
      [] text = "0"   -> <<Flt(0)>>
      [] text = "-5"  -> <<Flt(-5)>>
      [] text = "nan" -> <<NaN>>
      [] OTHER        -> <<>>

\* text.strip() for the texts typed into the name entry
Strip(text) ==
    CASE text = " "     -> ""
      [] text = " Blur" -> "Blur"
      [] OTHER          -> text

\* the texts of the four entries of a ParameterDialog
DialogTexts(name, min_val, max_val, default_val) ==
    [name |-> name, min_val |-> min_val, max_val |-> max_val,
     default_val |-> default_val]

\* ParameterDialog.ok_clicked: dialog.result as <<tuple>>, or <<>> when the
\* input is refused and the dialog is then cancelled
ok_clicked(texts) ==
    LET name == Strip(texts.name)
        min_val == ParseFloat(texts.min_val)
        max_val == ParseFloat(texts.max_val)
        default_val == ParseFloat(texts.default_val)
    IN  IF min_val = <<>> \/ max_val = <<>> \/ default_val = <<>> THEN <<>>
        ELSE IF name = "" THEN <<>>
        ELSE IF RLe(max_val[1], min_val[1]) THEN <<>>
        ELSE IF RLt(default_val[1], min_val[1]) \/ RLt(max_val[1], default_val[1])
             THEN <<>>
        ELSE <<[name |-> name, min_val |-> min_val[1], max_val |-> max_val[1],
                default_val |-> default_val[1]]>>

\* the edited parameter built anew from the result of the dialog
EditFields_fresh(p, r) ==
    [AnimationParameter(r.name, r.min_val, r.max_val, r.default_val)
        EXCEPT !.color = p.color]

\* the edited parameter with its keyframe values clamped to the new range
EditFields_clamped(p, r) ==
    [p EXCEPT !.name = r.name, !.min_value = r.min_val,
              !.max_value = r.max_val, !.default_value = r.default_val,
              !.keyframes =
                 [j \in 1..Len(p.keyframes) |->
                     [p.keyframes[j] EXCEPT !.value =
                         RMax(r.min_val, RMin(r.max_val, p.keyframes[j].value))]]]

\* edit_parameter: the attributes assigned to the parameter object
EditFields(p, r) ==
    [p EXCEPT !.name = r.name, !.min_value = r.min_val,
              !.max_value = r.max_val, !.default_value = r.default_val]

\* int(text) for the texts typed into the frame and duration entries: <<n>>,
\* or <<>> for ValueError
ParseInt(text) ==
    CASE text = "1"  -> <<1>>
      [] text = "0"  -> <<0>>
      [] text = "-3" -> <<-3>>
      [] text = "3"  -> <<3>>
      [] text = "59" -> <<59>>
      [] text = "3599"  -> <<3599>>
      [] text = "3600"  -> <<3600>>
      [] text = "86400" -> <<86400>>
      [] text = "90061" -> <<90061>>
      [] text = "90062" -> <<90062>>
      [] OTHER       -> <<>>

\* next(interp for interp in InterpolationType if interp.value == interp_name):
\* <<member>>, or <<>> for StopIteration
InterpolationByValue(interp_name) ==
    LET S == {i \in 1..Len(InterpolationType) :
                 InterpolationValue(InterpolationType[i]) = interp_name}
    IN  IF S = {} THEN <<>>
        ELSE <<InterpolationType[CHOOSE i \in S : \A j \in S : i <= j]>>

\* the clamp left out
Clamp_none(p, value) == value

\* max(param.min_value, min(param.max_value, value))
Clamp(p, value) == RMax(p.min_value, RMin(p.max_value, value))

\* max(0, min(frame, self.timeline_duration - 1)) on ints
ClampFrame(frame, duration) ==
    LET m == IF duration - 1 < frame THEN duration - 1 ELSE frame
    IN  IF 0 < m THEN m ELSE 0

\* update_time_display runs to its end: frame_to_time divides by the frame
\* rate, update_keyframe_controls looks selected_parameter up in the dict
TimeDisplayOk(sel, d, rate) ==
    /\ rate # Flt(0)
    /\ sel = <<>> \/ sel[1] \in Keys(d)

\* Tk splits the tag "keyframe_<name>_<frame>" at white space, so that
\* on_graph_click recovers the name only when it holds none
HasWhiteSpace(name) == name \in {"Position X", "Position Y"}

\* the mouse button is up: Tk delivers <B1-Motion> and <ButtonRelease-1> to
\* the graph canvas between a press and its release, and nothing else runs
ButtonUp == dragging_keyframe = <<>>

(***************************************************************************)
(* TimelineApp: parameters and keyframes.                                  *)
(***************************************************************************)
\* on_parameter_select, for the listbox entry name
on_parameter_select(name) ==
    /\ ButtonUp
    /\ name \in param_listbox
    /\ curselection' = <<name>>
    /\ selected_parameter' = <<name>>
    /\ event' = Event("on_parameter_select", name \in Keys(animation_parameters), {})
    /\ UNCHANGED <<animation_parameters, param_listbox, current_frame,
                   timeline_duration, current_frame_rate, markers, clips,
                   dragging_keyframe, file, saved>>
    /\ UNCHANGED paramVars
    /\ UNCHANGED drag_origin
    /\ UNCHANGED time_display

\* show_add_parameter_dialog, with the texts typed into the dialog
show_add_parameter_dialog(texts) ==
    /\ ButtonUp
    /\ LET dialog_result == ok_clicked(texts)
       IN  IF dialog_result # <<>>
           THEN LET r == dialog_result[1]
                    added == r.name \notin Keys(animation_parameters)
                IN  /\ animation_parameters' =
                          AddParameter(animation_parameters, r.name, r.min_val,
                                       r.max_val, r.default_val)
                    /\ IF added
                       THEN /\ param_listbox' = Keys(animation_parameters')
                            /\ curselection' = <<>>
                       ELSE UNCHANGED <<param_listbox, curselection>>
                    /\ event' = EventDialog("add_parameter", added, texts)
           ELSE /\ event' = EventDialog("add_parameter", FALSE, texts)
                /\ UNCHANGED <<animation_parameters, param_listbox, curselection>>
    /\ UNCHANGED <<selected_parameter, current_frame, timeline_duration,
                   current_frame_rate, markers, clips, dragging_keyframe,
                   file, saved>>
    /\ UNCHANGED paramVars
    /\ UNCHANGED drag_origin
    /\ UNCHANGED time_display

\* edit_parameter, with the texts typed into the dialog
edit_parameter(texts) ==
    /\ ButtonUp
    /\ IF curselection # <<>> /\ curselection[1] \in Keys(animation_parameters)
       THEN LET param_name == curselection[1]
                p == Item(animation_parameters, param_name)
                dialog_result == ok_clicked(texts)
            IN  IF dialog_result # <<>>
                THEN /\ animation_parameters' =
                           IF dialog_result[1].name # param_name
                           THEN SetItem(DelItem(animation_parameters, param_name),
                                        dialog_result[1].name, EditFields(p, dialog_result[1]))
                           ELSE SetItem(animation_parameters, param_name,
                                        EditFields(p, dialog_result[1]))
                     /\ param_listbox' = Keys(animation_parameters')
                     /\ curselection' = <<>>
                     /\ event' = EventDialog("edit_parameter", TRUE, texts)
                ELSE /\ event' = EventDialog("edit_parameter", FALSE, texts)
                     /\ UNCHANGED <<animation_parameters, param_listbox,
                                    curselection>>
       ELSE /\ event' = Event("edit_parameter", FALSE, {})
            /\ UNCHANGED <<animation_parameters, param_listbox, curselection>>
    /\ UNCHANGED <<selected_parameter, current_frame, timeline_duration,
                   current_frame_rate, markers, clips, dragging_keyframe,
                   file, saved>>
    /\ UNCHANGED paramVars
    /\ UNCHANGED drag_origin
    /\ UNCHANGED time_display

\* remove_parameter, with the answer to the confirmation dialog
remove_parameter(confirm) ==
    /\ ButtonUp
    /\ IF curselection # <<>> /\ confirm
          /\ curselection[1] \in Keys(animation_parameters)
       THEN /\ animation_parameters' = DelItem(animation_parameters, curselection[1])
            /\ selected_parameter' = <<>>
            /\ param_listbox' = Keys(animation_parameters')
            /\ curselection' = <<>>
            /\ event' = Event("remove_parameter", TRUE, {})
       ELSE /\ event' = Event("remove_parameter", FALSE, {})
            /\ UNCHANGED <<animation_parameters, selected_parameter,
                           param_listbox, curselection>>
    /\ UNCHANGED <<current_frame, timeline_duration, current_frame_rate,
                   markers, clips, dragging_keyframe, file, saved>>
    /\ UNCHANGED paramVars
    /\ UNCHANGED drag_origin
    /\ UNCHANGED time_display

\* TimelineApp.add_keyframe, with the texts of the value entry and of the
\* interpolation combobox
TimelineApp_add_keyframe(text, interp_name) ==
    /\ ButtonUp
    /\ IF /\ selected_parameter # <<>>
          /\ ParseFloat(text) # <<>>
          /\ Selected \in Keys(animation_parameters)
          /\ InterpolationByValue(interp_name) # <<>>
       THEN LET p == Item(animation_parameters, Selected)
                value == Clamp(p, ParseFloat(text)[1])
            IN  /\ animation_parameters' =
                      SetItem(animation_parameters, Selected,
                              add_keyframe(p, current_frame, value,
                                           InterpolationByValue(interp_name)[1]))
                /\ event' = Event("add_keyframe", TRUE,
                                  {<<Selected, current_frame>>})
       ELSE /\ event' = Event("add_keyframe", FALSE, {})
            /\ UNCHANGED animation_parameters
    /\ UNCHANGED <<param_listbox, curselection, selected_parameter,
                   current_frame, timeline_duration, current_frame_rate,
                   markers, clips, dragging_keyframe, file, saved>>
    /\ UNCHANGED paramVars
    /\ UNCHANGED drag_origin
    /\ UNCHANGED time_display

\* TimelineApp.remove_keyframe
TimelineApp_remove_keyframe ==
    /\ ButtonUp
    /\ IF selected_parameter # <<>> /\ Selected \in Keys(animation_parameters)
       THEN /\ animation_parameters' =
                  SetItem(animation_parameters, Selected,
                          remove_keyframe(Item(animation_parameters, Selected),
                                          current_frame))
            /\ event' = Event("remove_keyframe", TRUE, {})
       ELSE /\ event' = Event("remove_keyframe", FALSE, {})
            /\ UNCHANGED animation_parameters
    /\ UNCHANGED <<param_listbox, curselection, selected_parameter,
                   current_frame, timeline_duration, current_frame_rate,
                   markers, clips, dragging_keyframe, file, saved>>
    /\ UNCHANGED paramVars
    /\ UNCHANGED drag_origin
    /\ UNCHANGED time_display

(***************************************************************************)
(* TimelineApp: playhead.                                                  *)
(***************************************************************************)
\* step_forward; the model stops the playhead at MaxPlayhead
step_forward ==
    /\ ButtonUp
    /\ current_frame < MaxPlayhead
    /\ IF current_frame < timeline_duration - 1
       THEN /\ current_frame' = current_frame + 1
            /\ event' = Event("step_forward",
                              TimeDisplayOk(selected_parameter,
                                            animation_parameters,
                                            current_frame_rate), {})
       ELSE /\ event' = Event("step_forward", TRUE, {})
            /\ UNCHANGED current_frame
    /\ UNCHANGED <<animation_parameters, param_listbox, curselection,
                   selected_parameter, timeline_duration, current_frame_rate,
                   markers, clips, dragging_keyframe, file, saved>>
    /\ UNCHANGED paramVars
    /\ UNCHANGED drag_origin
    /\ update_time_display(current_frame < timeline_duration - 1)

\* step_backward
step_backward ==
    /\ ButtonUp
    /\ IF current_frame > 0
       THEN /\ current_frame' = current_frame - 1
            /\ event' = Event("step_backward",
                              TimeDisplayOk(selected_parameter,
                                            animation_parameters,
                                            current_frame_rate), {})
       ELSE /\ event' = Event("step_backward", TRUE, {})
            /\ UNCHANGED current_frame
    /\ UNCHANGED <<animation_parameters, param_listbox, curselection,
                   selected_parameter, timeline_duration, current_frame_rate,
                   markers, clips, dragging_keyframe, file, saved>>
    /\ UNCHANGED paramVars
    /\ UNCHANGED drag_origin
    /\ update_time_display(current_frame > 0)

\* go_to_start
go_to_start ==
    /\ ButtonUp
    /\ current_frame' = 0
    /\ event' = Event("go_to_start",
                      TimeDisplayOk(selected_parameter, animation_parameters,
                                    current_frame_rate), {})
    /\ UNCHANGED <<animation_parameters, param_listbox, curselection,
                   selected_parameter, timeline_duration, current_frame_rate,
                   markers, clips, dragging_keyframe, file, saved>>
    /\ UNCHANGED paramVars
    /\ UNCHANGED drag_origin
    /\ update_time_display(TRUE)

\* go_to_end; the model goes to the end of a timeline that ends within
\* MaxPlayhead
go_to_end ==
    /\ ButtonUp
    /\ timeline_duration - 1 <= MaxPlayhead
    /\ current_frame' = timeline_duration - 1
    /\ event' = Event("go_to_end",
                      TimeDisplayOk(selected_parameter, animation_parameters,
                                    current_frame_rate), {})
    /\ UNCHANGED <<animation_parameters, param_listbox, curselection,
                   selected_parameter, timeline_duration, current_frame_rate,
                   markers, clips, dragging_keyframe, file, saved>>
    /\ UNCHANGED paramVars
    /\ UNCHANGED drag_origin
    /\ update_time_display(TRUE)

\* go_to_frame, with the text of the frame entry
go_to_frame(text) ==
    /\ ButtonUp
    /\ IF ParseInt(text) # <<>>
       THEN /\ current_frame' = ClampFrame(ParseInt(text)[1], timeline_duration)
            /\ event' = Event("go_to_frame",
                              TimeDisplayOk(selected_parameter,
                                            animation_parameters,
                                            current_frame_rate), {})
       ELSE /\ event' = Event("go_to_frame", FALSE, {})
            /\ UNCHANGED current_frame
    /\ UNCHANGED <<animation_parameters, param_listbox, curselection,
                   selected_parameter, timeline_duration, current_frame_rate,
                   markers, clips, dragging_keyframe, file, saved>>
    /\ UNCHANGED paramVars
    /\ UNCHANGED drag_origin
    /\ update_time_display(ParseInt(text) # <<>>)

\* on_timeline_click; frame is int(canvas_x / self.zoom_level)
on_timeline_click(frame) ==
    /\ ButtonUp
    /\ current_frame' = ClampFrame(frame, timeline_duration)
    /\ event' = Event("on_timeline_click",
                      TimeDisplayOk(selected_parameter, animation_parameters,
                                    current_frame_rate), {})
    /\ UNCHANGED <<animation_parameters, param_listbox, curselection,
                   selected_parameter, timeline_duration, current_frame_rate,
                   markers, clips, dragging_keyframe, file, saved>>
    /\ UNCHANGED paramVars
    /\ UNCHANGED drag_origin
    /\ update_time_display(TRUE)

\* update_duration, with the text of the duration entry
update_duration(text) ==
    /\ ButtonUp
    /\ IF ParseInt(text) # <<>> /\ ParseInt(text)[1] > 0
       THEN LET duration == ParseInt(text)[1]
            IN  /\ timeline_duration' = duration
                /\ current_frame' = IF current_frame >= duration
                                    THEN duration - 1 ELSE current_frame
                /\ event' = Event("update_duration",
                                  TimeDisplayOk(selected_parameter,
                                                animation_parameters,
                                                current_frame_rate), {})
       ELSE /\ event' = Event("update_duration", FALSE, {})
            /\ UNCHANGED <<timeline_duration, current_frame>>
    /\ UNCHANGED <<animation_parameters, param_listbox, curselection,
                   selected_parameter, current_frame_rate, markers, clips,
                   dragging_keyframe, file, saved>>
    /\ UNCHANGED paramVars
    /\ UNCHANGED drag_origin
    /\ update_time_display(ParseInt(text) # <<>> /\ ParseInt(text)[1] > 0)

(***************************************************************************)
(* TimelineApp: frame rate.                                                *)
(***************************************************************************)
\* self.standard_frame_rates
standard_frame_rates ==
    ("23.976 fps (Cinema)" :> <<2997, 125>>) @@
    ("24 fps (Cinema)" :> Flt(24)) @@
    ("25 fps (PAL)" :> Flt(25)) @@
    ("29.97 fps (NTSC)" :> <<2997, 100>>) @@
    ("30 fps" :> Flt(30)) @@
    ("50 fps (PAL Progressive)" :> Flt(50)) @@
    ("59.94 fps (NTSC Progressive)" :> <<2997, 50>>) @@
    ("60 fps" :> Flt(60)) @@
    ("120 fps (High Frame Rate)" :> Flt(120))

\* on_fps_change, with the entry chosen in the frame rate combobox
on_fps_change(selected) ==
    /\ ButtonUp
    /\ IF selected # "Custom..." /\ selected \in DOMAIN standard_frame_rates
       THEN /\ current_frame_rate' = standard_frame_rates[selected]
            /\ event' = Event("on_fps_change",
                              TimeDisplayOk(selected_parameter,
                                            animation_parameters,
                                            current_frame_rate'), {})
       ELSE /\ event' = Event("on_fps_change", TRUE, {})
            /\ UNCHANGED current_frame_rate
    /\ UNCHANGED <<animation_parameters, param_listbox, curselection,
                   selected_parameter, current_frame, timeline_duration,
                   markers, clips, dragging_keyframe, file, saved>>
    /\ UNCHANGED paramVars
    /\ UNCHANGED drag_origin
    /\ update_time_display(selected # "Custom..."
                              /\ selected \in DOMAIN standard_frame_rates)

\* on_custom_fps_change, with the text of the custom frame rate entry
on_custom_fps_change(text) ==
    /\ ButtonUp
    /\ IF ParseFloat(text) # <<>> /\ ~RLe(ParseFloat(text)[1], Flt(0))
       THEN /\ current_frame_rate' = ParseFloat(text)[1]
            /\ event' = Event("on_custom_fps_change",
                              TimeDisplayOk(selected_parameter,
                                            animation_parameters,
                                            current_frame_rate'), {})
       ELSE /\ event' = Event("on_custom_fps_change", FALSE, {})
            /\ UNCHANGED current_frame_rate
    /\ UNCHANGED <<animation_parameters, param_listbox, curselection,
                   selected_parameter, current_frame, timeline_duration,
                   markers, clips, dragging_keyframe, file, saved>>
    /\ UNCHANGED paramVars
    /\ UNCHANGED drag_origin
    /\ update_time_display(ParseFloat(text) # <<>>
                              /\ ~RLe(ParseFloat(text)[1], Flt(0)))

(***************************************************************************)
(* TimelineApp: the animation graph.                                       *)
(***************************************************************************)
\* select_keyframe
select_keyframe(param_name, frame) ==
    IF /\ param_name \in Keys(animation_parameters)
       /\ HasFrame(Item(animation_parameters, param_name).keyframes, frame)
    THEN LET kfs == Item(animation_parameters, param_name).keyframes
             i == CHOOSE i \in 1..Len(kfs) : kfs[i].frame = frame
         IN  dragging_keyframe' = <<[param |-> param_name, keyframe |-> kfs[i]]>>
    ELSE UNCHANGED dragging_keyframe

\* on_graph_click with the keyframe oval of (param_name, frame) the closest
\* canvas item
on_graph_click_keyframe(param_name, frame) ==
    /\ ButtonUp
    /\ param_name \in Keys(animation_parameters)
    /\ HasFrame(Item(animation_parameters, param_name).keyframes, frame)
    /\ IF HasWhiteSpace(param_name)
       THEN UNCHANGED dragging_keyframe
       ELSE select_keyframe(param_name, frame)
    /\ event' = Event("on_graph_click", TRUE, {})
    /\ UNCHANGED <<animation_parameters, param_listbox, curselection,
                   selected_parameter, current_frame, timeline_duration,
                   current_frame_rate, markers, clips, file, saved>>
    /\ UNCHANGED paramVars
    /\ drag_origin' =
          IF dragging_keyframe' # <<>>
          THEN <<Item(animation_parameters, dragging_keyframe'[1].param).keyframes>>
          ELSE <<>>
    /\ UNCHANGED time_display

\* on_graph_click with another canvas item the closest; frame is
\* int(canvas_x / self.zoom_level)
on_graph_click_playhead(frame) ==
    /\ ButtonUp
    /\ animation_parameters # <<>>
    /\ current_frame' = ClampFrame(frame, timeline_duration)
    /\ event' = Event("on_graph_click",
                      TimeDisplayOk(selected_parameter, animation_parameters,
                                    current_frame_rate), {})
    /\ UNCHANGED <<animation_parameters, param_listbox, curselection,
                   selected_parameter, timeline_duration, current_frame_rate,
                   markers, clips, dragging_keyframe, file, saved>>
    /\ UNCHANGED paramVars
    /\ UNCHANGED drag_origin
    /\ update_time_display(TRUE)

\* on_graph_drag; frame is int(canvas_x / self.zoom_level)
on_graph_drag(frame, canvas_y) ==
    /\ dragging_keyframe # <<>>
    /\ LET name == dragging_keyframe[1].param
           old_kf == dragging_keyframe[1].keyframe
           p == Item(animation_parameters, name)
           new_frame == ClampFrame(frame, timeline_duration)
           height == Flt(300)
           raw_y == RSub(Flt(1),
                         RDiv(RSub(Flt(canvas_y), RMul(<<1, 10>>, height)),
                              RMul(<<8, 10>>, height)))
           normalized_y == RMax(Flt(0), RMin(Flt(1), raw_y))
           new_value == Clamp(p, RAdd(p.min_value,
                                      RMul(normalized_y,
                                           RSub(p.max_value, p.min_value))))
       IN  /\ animation_parameters' =
                 SetItem(animation_parameters, name,
                         add_keyframe(remove_keyframe(p, old_kf.frame),
                                      new_frame, new_value,
                                      old_kf.interpolation))
           /\ event' = Event("on_graph_drag", TRUE, {<<name, new_frame>>})
    /\ UNCHANGED <<param_listbox, curselection, selected_parameter,
                   current_frame, timeline_duration, current_frame_rate,
                   markers, clips, dragging_keyframe, file, saved>>
    /\ UNCHANGED paramVars
    /\ UNCHANGED drag_origin
    /\ UNCHANGED time_display

\* on_graph_release
on_graph_release ==
    /\ dragging_keyframe # <<>>
    /\ dragging_keyframe' = <<>>
    /\ event' = Event("on_graph_release", TRUE, {})
    /\ UNCHANGED <<animation_parameters, param_listbox, curselection,
                   selected_parameter, current_frame, timeline_duration,
                   current_frame_rate, markers, clips, file, saved>>
    /\ UNCHANGED paramVars
    /\ drag_origin' = <<>>
    /\ UNCHANGED time_display

(***************************************************************************)
(* TimelineApp: markers, clips, save and load.                             *)
(***************************************************************************)
\* clear_all, with the answer to the confirmation dialog
clear_all(confirm) ==
    /\ ButtonUp
    /\ IF confirm
       THEN markers' = <<>> /\ clips' = <<>>
       ELSE UNCHANGED <<markers, clips>>
    /\ event' = Event("clear_all", confirm, {})
    /\ UNCHANGED <<animation_parameters, param_listbox, curselection,
                   selected_parameter, current_frame, timeline_duration,
                   current_frame_rate, dragging_keyframe, file, saved>>
    /\ UNCHANGED paramVars
    /\ UNCHANGED drag_origin
    /\ UNCHANGED time_display

\* the keyframes written with kf.interpolation.name
SaveKeyframes_names(keyframes) ==
    [j \in 1..Len(keyframes) |->
        <<keyframes[j].frame, keyframes[j].value, keyframes[j].interpolation>>]

\* [(kf.frame, kf.value, kf.interpolation.value) for kf in param.keyframes]
SaveKeyframes(keyframes) ==
    [j \in 1..Len(keyframes) |->
        <<keyframes[j].frame, keyframes[j].value,
          InterpolationValue(keyframes[j].interpolation)>>]

\* save_timeline: timeline_data, the entries of 'animation_parameters' in the
\* order of the dict
SaveData ==
    [frame_rate |-> current_frame_rate,
     duration |-> timeline_duration,
     markers |-> markers,
     clips |-> clips,
     animation_parameters |->
        [i \in 1..Len(animation_parameters) |->
            [name |-> animation_parameters[i].name,
             min_value |-> animation_parameters[i].min_value,
             max_value |-> animation_parameters[i].max_value,
             default_value |-> animation_parameters[i].default_value,
             keyframes |-> SaveKeyframes(animation_parameters[i].keyframes)]]]

\* the document: frame rate, duration, markers, clips, and per parameter
\* name the range, the default and the (frame, value, mode) triples in order
DocKeyframes(keyframes) ==
    [j \in 1..Len(keyframes) |->
        <<keyframes[j].frame, keyframes[j].value, keyframes[j].interpolation>>]

Doc ==
    [frame_rate |-> current_frame_rate,
     duration |-> timeline_duration,
     markers |-> markers,
     clips |-> clips,
     parameters |->
        [n \in Keys(animation_parameters) |->
            [min_value |-> Item(animation_parameters, n).min_value,
             max_value |-> Item(animation_parameters, n).max_value,
             default_value |-> Item(animation_parameters, n).default_value,
             keyframes |-> DocKeyframes(Item(animation_parameters, n).keyframes)]]]

\* save_timeline
save_timeline ==
    /\ ButtonUp
    /\ file' = <<SaveData>>
    /\ saved' = <<Doc>>
    /\ event' = Event("save_timeline", TRUE, {})
    /\ UNCHANGED <<animation_parameters, param_listbox, curselection,
                   selected_parameter, current_frame, timeline_duration,
                   current_frame_rate, markers, clips, dragging_keyframe>>
    /\ UNCHANGED paramVars
    /\ UNCHANGED drag_origin
    /\ UNCHANGED time_display

\* the keyframes of a file entry taken over in the order of the file
RECURSIVE LoadKeyframes_trusted(_, _)
LoadKeyframes_trusted(p, kfs) ==
    IF kfs = <<>> THEN <<p>>
    ELSE IF InterpolationByValue(kfs[1][3]) = <<>> THEN <<>>
    ELSE LoadKeyframes_trusted(
           [p EXCEPT !.keyframes =
               Append(@, Keyframe(kfs[1][1], kfs[1][2],
                                  InterpolationByValue(kfs[1][3])[1]))],
           SubSeq(kfs, 2, Len(kfs)))

\* the inner loop of load_timeline: the keyframes of a file entry re-inserted
\* into p; <<p>>, or <<>> when an interpolation name is unknown
RECURSIVE LoadKeyframes(_, _)
LoadKeyframes(p, kfs) ==
    IF kfs = <<>> THEN <<p>>
    ELSE IF InterpolationByValue(kfs[1][3]) = <<>> THEN <<>>
    ELSE LoadKeyframes(add_keyframe(p, kfs[1][1], kfs[1][2],
                                    InterpolationByValue(kfs[1][3])[1]),
                       SubSeq(kfs, 2, Len(kfs)))

\* the outer loop of load_timeline over the entries of
\* 'animation_parameters', from the dict d: the dict when the loop ends and
\* whether it ended without an exception
RECURSIVE LoadParameters(_, _)
LoadParameters(d, entries) ==
    IF entries = <<>> THEN [dict |-> d, ok |-> TRUE]
    ELSE
      LET e == entries[1]
          complete == {"min_value", "max_value", "default_value", "keyframes"}
                         \subseteq DOMAIN e
          loaded == LoadKeyframes(AnimationParameter(e.name, e.min_value,
                                                     e.max_value, e.default_value),
                                  e.keyframes)
      IN  IF ~complete THEN [dict |-> d, ok |-> FALSE]
          ELSE IF loaded = <<>> THEN [dict |-> d, ok |-> FALSE]
          ELSE LoadParameters(
                 SetItem(d, e.name,
                         [loaded[1] EXCEPT !.color =
                             parameter_colors[(Len(d) % Len(parameter_colors)) + 1]]),
                 SubSeq(entries, 2, Len(entries)))

\* the default returned also for a key that is present
GetOr_default(data, key, default) == default

\* timeline_data.get(key, default)
GetOr(data, key, default) == IF key \in DOMAIN data THEN data[key] ELSE default

\* every (parameter, frame) of the dict
AllKeyframes(d) ==
    UNION {{<<d[i].name, d[i].keyframes[j].frame>> :
               j \in 1..Len(d[i].keyframes)} : i \in 1..Len(d)}

\* load_timeline of the file chosen in the file dialog, with content data
load_timeline(data) ==
    /\ ButtonUp
    /\ current_frame_rate' = GetOr(data, "frame_rate", Flt(30))
    /\ timeline_duration' = GetOr(data, "duration", 3600)
    /\ markers' = GetOr(data, "markers", <<>>)
    /\ clips' = GetOr(data, "clips", <<>>)
    /\ LET has == "animation_parameters" \in DOMAIN data
           l == IF has THEN LoadParameters(<<>>, data.animation_parameters)
                ELSE [dict |-> animation_parameters, ok |-> TRUE]
       IN  /\ animation_parameters' = l.dict
           /\ IF l.ok
              THEN /\ param_listbox' = Keys(l.dict)
                   /\ curselection' = <<>>
              ELSE UNCHANGED <<param_listbox, curselection>>
           /\ event' = Event("load_timeline",
                             l.ok /\ TimeDisplayOk(selected_parameter, l.dict,
                                                   current_frame_rate'),
                             IF has THEN AllKeyframes(l.dict) ELSE {})
    /\ file' = <<data>>
    /\ UNCHANGED <<selected_parameter, current_frame, dragging_keyframe,
                   saved>>
    /\ UNCHANGED paramVars
    /\ UNCHANGED drag_origin
    /\ update_time_display("animation_parameters" \notin DOMAIN data
                              \/ LoadParameters(<<>>, data.animation_parameters).ok)

(***************************************************************************)
(* TimelineApp driven through its handlers (Spec).                         *)
(***************************************************************************)
\* inputs
SelectInputs == {"Opacity"}
KeyframeValueTexts == {"150", "50", "abc"}
InterpolationTexts == {"Ease Out", "Cubic"}
ClickFrames == (-1)..MaxPlayhead
CanvasYInputs == {-10, 150}

\* a timeline file with a keyframe value above max_value
FileOutOfRange ==
    [frame_rate |-> Flt(24), duration |-> 2, markers |-> <<>>, clips |-> <<>>,
     animation_parameters |->
        <<[name |-> "Opacity", min_value |-> Flt(0), max_value |-> Flt(100),
           default_value |-> Flt(100),
           keyframes |-> <<<<0, Flt(150), "Ease In">>>>]>>]

\* a timeline file with min_value above max_value
FileInverted ==
    [frame_rate |-> Flt(24), duration |-> 2, markers |-> <<>>, clips |-> <<>>,
     animation_parameters |->
        <<[name |-> "Opacity", min_value |-> Flt(100), max_value |-> Flt(0),
           default_value |-> Flt(0), keyframes |-> <<>>]>>]

\* a timeline file whose second parameter has a keyframe with an
\* interpolation name that is not a value of InterpolationType
FileQuadratic ==
    [frame_rate |-> Flt(25), duration |-> 2,
     markers |-> <<[frame |-> 1, label |-> "cut"]>>, clips |-> <<>>,
     animation_parameters |->
        <<[name |-> "Scale", min_value |-> Flt(0), max_value |-> Flt(10),
           default_value |-> Flt(1),
           keyframes |-> <<<<0, Flt(2), "Linear">>>>],
          [name |-> "Opacity", min_value |-> Flt(0), max_value |-> Flt(100),
           default_value |-> Flt(100),
           keyframes |-> <<<<0, Flt(50), "Quadratic">>>>]>>]

\* a timeline file whose keyframes array is not sorted and names frame 1
\* twice, with a duration of one frame
FileUnsorted ==
    [frame_rate |-> Flt(30), duration |-> 1, markers |-> <<>>,
     clips |-> <<[label |-> "Clip 0", start |-> 0, end |-> 60]>>,
     animation_parameters |->
        <<[name |-> "Opacity", min_value |-> Flt(0), max_value |-> Flt(100),
           default_value |-> Flt(100),
           keyframes |-> <<<<1, Flt(80), "Step">>, <<0, Flt(20), "Linear">>,
                           <<1, Flt(60), "Bezier">>>>]>>]

\* a timeline file without the key 'animation_parameters'
FileNoParameters ==
    [frame_rate |-> Flt(24), duration |-> 2,
     markers |-> <<[frame |-> 0, label |-> "intro"]>>, clips |-> <<>>]

\* a timeline file without the key 'frame_rate'
FileNoFrameRate ==
    [duration |-> 2, markers |-> <<[frame |-> 1, label |-> "cut"]>>,
     clips |-> <<>>,
     animation_parameters |->
        <<[name |-> "Opacity", min_value |-> Flt(0), max_value |-> Flt(100),
           default_value |-> Flt(100),
           keyframes |-> <<<<0, Flt(50), "Ease In">>>>]>>]

\* a timeline file without the key 'duration'
FileNoDuration ==
    [frame_rate |-> Flt(25), markers |-> <<>>,
     clips |-> <<[label |-> "Clip 0", start |-> 0, end |-> 60]>>,
     animation_parameters |->
        <<[name |-> "Opacity", min_value |-> Flt(0), max_value |-> Flt(100),
           default_value |-> Flt(100), keyframes |-> <<>>]>>]

FileInputs ==
    {FileOutOfRange, FileInverted, FileQuadratic, FileUnsorted, FileNoParameters}

\* texts of the frame entry and of the duration entry
FrameTexts == {"1", "-3", "abc"}
DurationTexts == {"1", "0", "abc"}

Init ==
    /\ AppInit
    /\ param = AnimationParameter("Opacity", Flt(0), Flt(100), Flt(100))
    /\ result = <<>>
    /\ last = Call("__init__", 0, Flt(0), "", FALSE)

Next ==
    \/ \E name \in SelectInputs : on_parameter_select(name)
    \/ \E text \in KeyframeValueTexts, interp_name \in InterpolationTexts :
          TimelineApp_add_keyframe(text, interp_name)
    \/ TimelineApp_remove_keyframe
    \/ step_forward
    \/ step_backward
    \/ go_to_start
    \/ go_to_end
    \/ \E text \in FrameTexts : go_to_frame(text)
    \/ \E frame \in ClickFrames : on_timeline_click(frame)
    \/ \E text \in DurationTexts : update_duration(text)
    \/ \E name \in SelectInputs, frame \in 0..MaxPlayhead :
          on_graph_click_keyframe(name, frame)
    \/ \E frame \in ClickFrames : on_graph_click_playhead(frame)
    \/ \E frame \in ClickFrames, canvas_y \in CanvasYInputs :
          on_graph_drag(frame, canvas_y)
    \/ on_graph_release
    \/ \E data \in FileInputs : load_timeline(data)

Spec == Init /\ [][Next]_vars

(***************************************************************************)
(* The parameter store driven through its dialogs (SpecStore).             *)
(***************************************************************************)
\* inputs
StoreSelectInputs == {"Opacity"}
\* the texts typed into the dialog: two valid inputs, one of them under the
\* name of another default parameter, a valid input under a new name, and
\* five inputs the dialog refuses (min > max, min = max, a default above
\* the maximum, a text that is no number, a blank name), and nan typed as
\* the minimum
StoreDialogInputs ==
    {DialogTexts("Opacity", "0", "50", "50"),
     DialogTexts("Scale", "-5", "50", "0"),
     DialogTexts(" Blur", "-5", "50", "0"),
     DialogTexts("Opacity", "100", "0", "50"),
     DialogTexts("Opacity", "50", "50", "50"),
     DialogTexts("Opacity", "0", "100", "150"),
     DialogTexts("Opacity", "abc", "100", "50"),
     DialogTexts(" ", "0", "100", "50"),
     DialogTexts("Opacity", "nan", "100", "50")}
StoreValueTexts == {"150"}
StoreInterpolationTexts == {"Step"}
StoreFileInputs == {FileInverted, FileQuadratic}

NextStore ==
    \/ \E name \in StoreSelectInputs : on_parameter_select(name)
    \/ \E texts \in StoreDialogInputs : show_add_parameter_dialog(texts)
    \/ \E texts \in StoreDialogInputs : edit_parameter(texts)
    \/ \E confirm \in BOOLEAN : remove_parameter(confirm)
    \/ \E text \in StoreValueTexts, interp_name \in StoreInterpolationTexts :
          TimelineApp_add_keyframe(text, interp_name)
    \/ \E data \in StoreFileInputs : load_timeline(data)

SpecStore == Init /\ [][NextStore]_vars

(***************************************************************************)
(* Frame rate, duration and playhead set by hand and from a file, and the  *)
(* time display that follows them (SpecTime).                              *)
(***************************************************************************)
\* inputs: frames up to a little over one hour at 24 and 25 frames per
\* second, and ten hours at 2.5
FpsInputs == {"24 fps (Cinema)", "29.97 fps (NTSC)", "Custom..."}
CustomFpsTexts == {"2.5", "0", "abc"}
TimeFrameTexts == {"0", "3", "59", "3599", "86400", "90061", "abc"}
TimeDurationTexts == {"3600", "90062", "0"}
\* files that leave the frame rate or the duration out
TimeFileInputs == {FileNoFrameRate, FileNoDuration}

NextTime ==
    \/ \E selected \in FpsInputs : on_fps_change(selected)
    \/ \E text \in CustomFpsTexts : on_custom_fps_change(text)
    \/ \E text \in TimeDurationTexts : update_duration(text)
    \/ \E text \in TimeFrameTexts : go_to_frame(text)
    \/ \E data \in TimeFileInputs : load_timeline(data)

SpecTime == Init /\ [][NextTime]_vars

(***************************************************************************)
(* A document saved and loaded back (SpecFile).                            *)
(***************************************************************************)
\* the keyframes of a document: one per frame of F, added last frame first
RECURSIVE BuildKeyframes(_, _, _, _)
BuildKeyframes(p, F, mode, base) ==
    IF F = {} THEN p
    ELSE LET f == CHOOSE x \in F : \A y \in F : y <= x
         IN  BuildKeyframes(add_keyframe(p, f, RAdd(base, Flt(f)), mode[f]),
                            F \ {f}, mode, base)

\* keyframe values: above max_value as edit_parameter leaves them, and
\* fractional as on_graph_drag makes them
DocValueInputs == {Flt(150), <<1, 2>>}

\* frame rate, duration, markers and clips of a new and of an edited timeline
DocSettings ==
    {[frame_rate |-> Flt(30), duration |-> 3600, markers |-> <<>>, clips |-> <<>>],
     [frame_rate |-> <<2997, 125>>, duration |-> 120,
      markers |-> <<[frame |-> 1, label |-> "cut"]>>,
      clips |-> <<[label |-> "Clip 0", start |-> 0, end |-> 60]>>]}

InitFile ==
    /\ \E F \in SUBSET FrameInputs, base \in DocValueInputs, s \in DocSettings :
          /\ Cardinality(F) <= MaxKeyframes
          /\ \E mode \in [F -> InterpolationMembers] :
                animation_parameters =
                   SetItem(DefaultParameters, "Opacity",
                           BuildKeyframes(Item(DefaultParameters, "Opacity"),
                                          F, mode, base))
          /\ current_frame_rate = s.frame_rate
          /\ timeline_duration = s.duration
          /\ markers = s.markers
          /\ clips = s.clips
    /\ param_listbox = Keys(DefaultParameters)
    /\ curselection = <<>>
    /\ selected_parameter = <<>>
    /\ current_frame = 0
    /\ dragging_keyframe = <<>>
    /\ time_display = TimeDisplay(current_frame, timeline_duration,
                                  current_frame_rate)
    /\ drag_origin = <<>>
    /\ file = <<>>
    /\ saved = <<>>
    /\ event = Event("__init__", TRUE, {})
    /\ param = AnimationParameter("Opacity", Flt(0), Flt(100), Flt(100))
    /\ result = <<>>
    /\ last = Call("__init__", 0, Flt(0), "", FALSE)

NextFile ==
    \/ \E name \in SelectInputs : on_parameter_select(name)
    \/ \E confirm \in BOOLEAN : remove_parameter(confirm)
    \/ \E confirm \in BOOLEAN : clear_all(confirm)
    \/ save_timeline
    \/ file # <<>> /\ load_timeline(file[1])

SpecFile == InitFile /\ [][NextFile]_vars

(***************************************************************************)
(* Properties of the keyframe sequence (SpecParam).                        *)
(***************************************************************************)
Kfs == param.keyframes
Queried == result # <<>>
Res == result[1]

\* C1: the keyframes list of a parameter is strictly ascending by frame after
\* any sequence of add_keyframe and remove_keyframe calls, so no two
\* keyframes share a frame.
C1_StrictlyAscending ==
    \A i \in 1..(Len(Kfs) - 1) : Kfs[i].frame < Kfs[i + 1].frame

\* a later add_keyframe at a smaller frame has been sorted in front
C1_Witness ==
    /\ Len(Kfs) = 2
    /\ last.op = "add_keyframe" /\ ~last.hit /\ last.frame = 0
    /\ Kfs[1].frame = 0
    /\ Kfs[2].frame = LastFrame

\* C2: get_value_at_frame(kf.frame) returns exactly kf.value for every
\* keyframe kf, whatever the interpolation modes of kf and its neighbours.
C2_ExactAtKeyframe ==
    Queried =>
      \A i \in 1..Len(Kfs) :
         FrameEq(Kfs[i].frame, Res.frame) => Res.value = Kfs[i].value

\* queried on the right keyframe of a Step segment whose two values differ
C2_Witness ==
    /\ Queried
    /\ Len(Kfs) = 2
    /\ Kfs[1].interpolation = "STEP"
    /\ Kfs[2].interpolation = "EASE_IN_OUT"
    /\ Kfs[1].value # Kfs[2].value
    /\ FrameEq(Kfs[2].frame, Res.frame)
    /\ Res.value = Kfs[2].value

\* C3: before the first keyframe (negative frames included) the value is the
\* first keyframe's value, after the last keyframe it is the last keyframe's
\* value, whatever the interpolation modes.
C3_HoldOutside ==
    (Queried /\ Kfs # <<>>) =>
      /\ RLt(Res.frame, Flt(Kfs[1].frame)) => Res.value = Kfs[1].value
      /\ RLt(Flt(Kfs[Len(Kfs)].frame), Res.frame) =>
            Res.value = Kfs[Len(Kfs)].value

\* queried at a negative frame in front of an Ease Out keyframe
C3_Witness ==
    /\ Queried
    /\ Len(Kfs) = 2
    /\ RLt(Res.frame, Flt(0))
    /\ Kfs[1].interpolation = "EASE_OUT"
    /\ Kfs[1].value # Kfs[2].value
    /\ Res.value = Kfs[1].value

\* queried behind the last keyframe
C3_WitnessAfter ==
    /\ Queried
    /\ Len(Kfs) = 2
    /\ RLt(Flt(Kfs[2].frame), Res.frame)
    /\ Kfs[1].value # Kfs[2].value
    /\ Res.value = Kfs[2].value

\* the query frame lies strictly between keyframes i and i + 1
InSegment(i) ==
    /\ Queried
    /\ i \in 1..(Len(Kfs) - 1)
    /\ RLt(Flt(Kfs[i].frame), Res.frame)
    /\ RLt(Res.frame, Flt(Kfs[i + 1].frame))

\* t = (frame - kf1.frame) / (kf2.frame - kf1.frame)
SegmentT(i) ==
    RDiv(RSub(Res.frame, Flt(Kfs[i].frame)),
         Flt(Kfs[i + 1].frame - Kfs[i].frame))

\* the remapping t -> t' as the claim states it
Sq(x) == RMul(x, x)
ClaimedCurve(mode, t) ==
    CASE mode = "LINEAR"      -> t
      [] mode = "EASE_IN"     -> Sq(t)
      [] mode = "EASE_OUT"    -> RSub(Flt(1), Sq(RSub(Flt(1), t)))
      [] mode = "EASE_IN_OUT" ->
           IF RLt(t, <<1, 2>>) THEN RMul(Flt(2), Sq(t))
           ELSE RSub(Flt(1), RMul(Flt(2), Sq(RSub(Flt(1), t))))
      [] mode = "BEZIER"      -> RMul(Sq(t), RSub(Flt(3), RMul(Flt(2), t)))

\* C4: strictly between two consecutive keyframes kf1 < kf2 the value is
\* kf1.value + (kf2.value - kf1.value) * t' with t' chosen by kf1's mode only
\* (Linear, Ease In, Ease Out, Ease In-Out, Bezier); for Linear the value at
\* the segment midpoint is the arithmetic mean of the two values.
C4_SegmentFormula ==
    \A i \in 1..(Len(Kfs) - 1) :
       (InSegment(i) /\ Kfs[i].interpolation # "STEP") =>
          /\ Res.value =
                RAdd(Kfs[i].value,
                     RMul(RSub(Kfs[i + 1].value, Kfs[i].value),
                          ClaimedCurve(Kfs[i].interpolation, SegmentT(i))))
          /\ (Kfs[i].interpolation = "LINEAR" /\ SegmentT(i) = <<1, 2>>) =>
                Res.value =
                   RDiv(RAdd(Kfs[i].value, Kfs[i + 1].value), Flt(2))

\* an Ease In segment that ends in a Step keyframe, sampled in its first half
C4_Witness ==
    /\ InSegment(1)
    /\ Kfs[1].interpolation = "EASE_IN"
    /\ Kfs[2].interpolation = "STEP"
    /\ Kfs[1].value # Kfs[2].value
    /\ RLt(SegmentT(1), <<1, 2>>)
    /\ Res.value # Kfs[1].value
    /\ Res.value # Kfs[2].value

\* a Linear segment sampled at its midpoint
C4_WitnessMidpoint ==
    /\ InSegment(1)
    /\ Kfs[1].interpolation = "LINEAR"
    /\ Kfs[1].value = Flt(1)
    /\ Kfs[2].value = Flt(0)
    /\ SegmentT(1) = <<1, 2>>
    /\ Res.value = <<1, 2>>

\* C5: when the left keyframe of a segment has mode Step, the value is
\* kf1.value everywhere strictly inside the segment, regardless of the next
\* keyframe's value or mode.
C5_StepHolds ==
    \A i \in 1..(Len(Kfs) - 1) :
       (InSegment(i) /\ Kfs[i].interpolation = "STEP") =>
          Res.value = Kfs[i].value

C5_Witness ==
    /\ InSegment(1)
    /\ Kfs[1].interpolation = "STEP"
    /\ Kfs[2].interpolation = "LINEAR"
    /\ Kfs[1].value # Kfs[2].value
    /\ RLt(<<1, 2>>, SegmentT(1))
    /\ Res.value = Kfs[1].value

\* C6: with an empty keyframe sequence get_value_at_frame returns
\* default_value for every query frame, also after every keyframe that was
\* added has been removed again.
C6_EmptyGivesDefault ==
    (Queried /\ Kfs = <<>>) => Res.value = param.default_value

\* queried after the last keyframe was removed
C6_Witness ==
    /\ Queried
    /\ Kfs = <<>>
    /\ last.op = "remove_keyframe" /\ last.hit
    /\ Res.value = Flt(100)

\* C7: add_keyframe on a frame that already holds a keyframe replaces it:
\* the length is unchanged, exactly one keyframe is at that frame and carries
\* the new value and mode, every keyframe at another frame is unchanged.
C7_ReplaceInPlace ==
    [][(last'.op = "add_keyframe" /\ result' = <<>>
          /\ HasFrame(Kfs, last'.frame)) =>
          LET f == last'.frame
          IN  /\ Len(Kfs') = Len(Kfs)
              /\ Cardinality({i \in 1..Len(Kfs') : Kfs'[i].frame = f}) = 1
              /\ \A i \in 1..Len(Kfs') :
                    Kfs'[i].frame = f =>
                       /\ Kfs'[i].value = last'.value
                       /\ Kfs'[i].interpolation = last'.interpolation
              /\ \A i \in 1..Len(Kfs) :
                    Kfs[i].frame # f =>
                       \E j \in 1..Len(Kfs') : Kfs'[j] = Kfs[i]
              /\ \A j \in 1..Len(Kfs') :
                    Kfs'[j].frame # f =>
                       \E i \in 1..Len(Kfs) : Kfs[i] = Kfs'[j]]_vars

\* the last call replaced a keyframe while a second one was present
C7_Witness ==
    /\ last.op = "add_keyframe" /\ last.hit
    /\ Len(Kfs) = 2
    /\ last.frame = Kfs[2].frame
    /\ Kfs[2].interpolation = "BEZIER"
    /\ Kfs[2].value = Flt(1)

\* C8: remove_keyframe(frame) removes the keyframe at that frame and no
\* other; when no keyframe is at that frame the sequence is left unchanged.
C8_RemoveOnlyThatFrame ==
    [][(last'.op = "remove_keyframe" /\ result' = <<>>) =>
          LET f == last'.frame
          IN  /\ ~HasFrame(Kfs', f)
              /\ \A i \in 1..Len(Kfs) :
                    Kfs[i].frame # f =>
                       \E j \in 1..Len(Kfs') : Kfs'[j] = Kfs[i]
              /\ \A j \in 1..Len(Kfs') :
                    \E i \in 1..Len(Kfs) : Kfs[i] = Kfs'[j]
              /\ Len(Kfs') = Len(Kfs) - (IF HasFrame(Kfs, f) THEN 1 ELSE 0)
              /\ ~HasFrame(Kfs, f) => Kfs' = Kfs]_vars

\* a removal that hit one of two keyframes
C8_Witness ==
    /\ last.op = "remove_keyframe" /\ last.hit
    /\ Len(Kfs) = 1

\* a removal at a frame without a keyframe, two keyframes left in place
C8_WitnessAbsent ==
    /\ last.op = "remove_keyframe" /\ ~last.hit
    /\ Len(Kfs) = 2

\* the ease mode that mirrors mode
MirrorMode(mode) == IF mode = "EASE_IN" THEN "EASE_OUT" ELSE "EASE_IN"

\* C22: Ease In and Ease Out are mirror images: for a segment whose keyframe
\* values are 0 and 1 and every t in [0, 1], the value of the one curve at t
\* equals 1 minus the value of the other curve at 1 - t.
C22_EaseMirror ==
    \A i \in 1..(Len(Kfs) - 1) :
       (/\ Queried
        /\ Kfs[i].interpolation \in {"EASE_IN", "EASE_OUT"}
        /\ Kfs[i].value = Flt(0) /\ Kfs[i + 1].value = Flt(1)
        /\ FrameLe(Kfs[i].frame, Res.frame)
        /\ FrameGe(Kfs[i + 1].frame, Res.frame)) =>
          LET twin == [Kfs[i] EXCEPT !.interpolation = MirrorMode(@)]
              mirrored == RSub(Flt(Kfs[i].frame + Kfs[i + 1].frame), Res.frame)
          IN  Res.value = RSub(Flt(1), interpolate(twin, Kfs[i + 1], mirrored))

\* an Ease In segment from 0 to 1 sampled at t = 1/4
C22_Witness ==
    /\ InSegment(1)
    /\ Kfs[1].interpolation = "EASE_IN"
    /\ Kfs[1].value = Flt(0) /\ Kfs[2].value = Flt(1)
    /\ SegmentT(1) = <<1, 4>>
    /\ Res.value = <<1, 16>>

\* an Ease Out segment from 0 to 1 sampled at t = 1/4
C22_WitnessEaseOut ==
    /\ InSegment(1)
    /\ Kfs[1].interpolation = "EASE_OUT"
    /\ Kfs[1].value = Flt(0) /\ Kfs[2].value = Flt(1)
    /\ SegmentT(1) = <<1, 4>>
    /\ Res.value = <<7, 16>>

\* C27: for every interpolation mode and every query frame between two
\* consecutive keyframes, the value returned by get_value_at_frame lies in
\* the closed interval spanned by the two keyframes' values; hence if every
\* stored keyframe value is within [min_value, max_value], every evaluated
\* value is too.
C27_ValueBetween ==
    /\ \A i \in 1..(Len(Kfs) - 1) :
          InSegment(i) =>
             /\ RLe(RMin(Kfs[i].value, Kfs[i + 1].value), Res.value)
             /\ RLe(Res.value, RMax(Kfs[i].value, Kfs[i + 1].value))
    /\ (/\ Queried
        /\ Kfs # <<>>
        /\ \A i \in 1..Len(Kfs) :
              RLe(param.min_value, Kfs[i].value)
                 /\ RLe(Kfs[i].value, param.max_value)) =>
          RLe(param.min_value, Res.value) /\ RLe(Res.value, param.max_value)

\* a Bezier segment that falls from 1 to 0, sampled at t = 3/4
C27_Witness ==
    /\ InSegment(1)
    /\ Kfs[1].interpolation = "BEZIER"
    /\ Kfs[1].value = Flt(1) /\ Kfs[2].value = Flt(0)
    /\ SegmentT(1) = <<3, 4>>
    /\ Res.value = <<5, 32>>

\* an Ease In-Out segment that rises from 0 to 1, sampled at t = 3/4
C27_WitnessEaseInOut ==
    /\ InSegment(1)
    /\ Kfs[1].interpolation = "EASE_IN_OUT"
    /\ Kfs[1].value = Flt(0) /\ Kfs[2].value = Flt(1)
    /\ SegmentT(1) = <<3, 4>>
    /\ Res.value = <<7, 8>>

(***************************************************************************)
(* Properties of TimelineApp (Spec, SpecFile).                             *)
(***************************************************************************)
\* the keyframe of parameter name at frame
KeyframeAt(name, frame) ==
    LET kfs == Item(animation_parameters, name).keyframes
    IN  kfs[CHOOSE i \in 1..Len(kfs) : kfs[i].frame = frame]

\* the keyframe of parameter name at frame holds a value in
\* [min_value, max_value]
InRange(name, frame) ==
    LET p == Item(animation_parameters, name)
    IN  /\ RLe(p.min_value, KeyframeAt(name, frame).value)
        /\ RLe(KeyframeAt(name, frame).value, p.max_value)

\* C9 as stated: every keyframe inserted by the add-keyframe command, by a
\* drag or by the re-insertion of load_timeline holds a value clamped into
\* [min_value, max_value].
C9_EveryInsertionClamped ==
    \A pr \in event.inserted : InRange(pr[1], pr[2])

\* C9 as amended: a keyframe inserted by the add-keyframe command or by a
\* drag holds the value max(min_value, min(max_value, v)): a value in
\* [min_value, max_value] when min_value <= max_value, and min_value
\* otherwise; load_timeline re-inserts the values of the file as they are.
C9_AddAndDragClamped ==
    \A pr \in event.inserted :
       event.op \in {"add_keyframe", "on_graph_drag"} =>
          LET p == Item(animation_parameters, pr[1])
          IN  IF RLe(p.min_value, p.max_value)
              THEN InRange(pr[1], pr[2])
              ELSE KeyframeAt(pr[1], pr[2]).value = p.min_value

\* the add-keyframe command has stored 100 for the text "150"
C9_Witness ==
    /\ event = Event("add_keyframe", TRUE, {<<"Opacity", current_frame>>})
    /\ Item(animation_parameters, "Opacity").max_value = Flt(100)
    /\ Item(animation_parameters, "Opacity").min_value = Flt(0)
    /\ KeyframeAt("Opacity", current_frame).value = Flt(100)
    /\ KeyframeAt("Opacity", current_frame).interpolation = "EASE_OUT"

\* a drag above the graph has stored max_value
C9_WitnessDrag ==
    /\ event.op = "on_graph_drag"
    /\ event.inserted = {<<"Opacity", MaxPlayhead>>}
    /\ Item(animation_parameters, "Opacity").max_value = Flt(100)
    /\ KeyframeAt("Opacity", MaxPlayhead).value = Flt(100)

\* the add-keyframe command on a parameter loaded with min_value > max_value
C9_WitnessInverted ==
    /\ event.op = "add_keyframe"
    /\ event.inserted # {}
    /\ Item(animation_parameters, "Opacity").min_value = Flt(100)
    /\ Item(animation_parameters, "Opacity").max_value = Flt(0)

\* C10: load(save(D)) reproduces D: the same parameter names, each with the
\* same min_value, max_value, default_value and the same sequence of
\* (frame, value, mode) triples, and the same frame rate, duration, markers
\* and clips.
C10_RoundTrip ==
    (event.op = "load_timeline" /\ saved # <<>>) => Doc = saved[1]

\* a saved document with two keyframes, a marker and a clip has been loaded
C10_Witness ==
    /\ event = Event("load_timeline", TRUE, {<<"Opacity", 0>>, <<"Opacity", LastFrame>>})
    /\ saved # <<>>
    /\ Doc = saved[1]
    /\ KeyframeAt("Opacity", 0).interpolation = "EASE_IN_OUT"
    /\ KeyframeAt("Opacity", 0).value = <<1, 2>>
    /\ KeyframeAt("Opacity", LastFrame).interpolation = "BEZIER"
    /\ markers # <<>>
    /\ clips # <<>>

\* C11: a load that fails leaves the in-memory document exactly as it was
\* before the load: frame rate, duration, markers, clips and the parameter
\* store with all keyframes.
C11_FailedLoadChangesNothing ==
    [][(event'.op = "load_timeline" /\ ~event'.ok) => Doc' = Doc]_vars

\* C12: the current playhead frame is in [0, duration - 1] in every
\* reachable state.
C12_PlayheadInRange ==
    0 <= current_frame /\ current_frame <= timeline_duration - 1

\* the (frame, value, name) triples of a file entry that name frame, in the
\* order of the file
TriplesAt(entry, frame) == SelectSeq(entry.keyframes, LAMBDA k : k[1] = frame)

\* C19: after a load every parameter's keyframes are strictly ascending by
\* frame with one keyframe per frame that its file entry names, and for a
\* frame that the file names several times the entry that comes last in the
\* file wins.
C19_LoadRestoresOrder ==
    (event.op = "load_timeline" /\ event.ok
       /\ "animation_parameters" \in DOMAIN file[1]) =>
       \A i \in 1..Len(file[1].animation_parameters) :
          LET e == file[1].animation_parameters[i]
              kfs == Item(animation_parameters, e.name).keyframes
          IN  /\ \A j \in 1..(Len(kfs) - 1) : kfs[j].frame < kfs[j + 1].frame
              /\ {kfs[j].frame : j \in 1..Len(kfs)} =
                    {e.keyframes[j][1] : j \in 1..Len(e.keyframes)}
              /\ \A j \in 1..Len(kfs) :
                    LET t == TriplesAt(e, kfs[j].frame)
                    IN  /\ kfs[j].value = t[Len(t)][2]
                        /\ InterpolationValue(kfs[j].interpolation) = t[Len(t)][3]

\* the file with the unsorted keyframes and frame 1 twice has been loaded
C19_Witness ==
    /\ event.op = "load_timeline" /\ event.ok
    /\ file = <<FileUnsorted>>
    /\ Item(animation_parameters, "Opacity").keyframes =
          <<Keyframe(0, Flt(20), "LINEAR"), Keyframe(1, Flt(60), "BEZIER")>>

\* the parameters a file describes
FileEntries(data) ==
    IF "animation_parameters" \in DOMAIN data THEN data.animation_parameters
    ELSE <<>>

\* C20: after a successful load the store holds exactly the parameters the
\* file describes, with the file's range and default, and markers and clips
\* are those of the file.
C20_LoadRestoresWholesale ==
    (event.op = "load_timeline" /\ event.ok) =>
       LET entries == FileEntries(file[1])
       IN  /\ Keys(animation_parameters) =
                 {entries[i].name : i \in 1..Len(entries)}
           /\ Len(animation_parameters) = Len(entries)
           /\ \A i \in 1..Len(entries) :
                 LET p == Item(animation_parameters, entries[i].name)
                 IN  /\ p.min_value = entries[i].min_value
                     /\ p.max_value = entries[i].max_value
                     /\ p.default_value = entries[i].default_value
           /\ markers = GetOr(file[1], "markers", <<>>)
           /\ clips = GetOr(file[1], "clips", <<>>)

(***************************************************************************)
(* Properties of the time display (SpecTime).                              *)
(***************************************************************************)
\* the seconds that hours, minutes and seconds of a time string add up to
TimeSeconds(tc) == tc.hours * 3600 + tc.minutes * 60 + tc.seconds

\* hours, minutes and seconds of tc decompose frame / rate, and for an
\* integer rate and frame >= 0 the four fields recompose to frame
Decomposes(tc, frame, rate) ==
    /\ tc.minutes \in 0..59
    /\ tc.seconds \in 0..59
    /\ TimeSeconds(tc) = RFloor(RDiv(Flt(frame), rate))
    /\ (Den(rate) = 1 /\ frame >= 0) =>
          /\ frame = TimeSeconds(tc) * Num(rate) + tc.frame_remainder
          /\ 0 <= tc.frame_remainder
          /\ tc.frame_remainder < Num(rate)

\* C23 as stated: frame_to_time(frame) decomposes frame / frame_rate into
\* hours, minutes (0..59) and seconds (0..59) and reports a frame remainder
\* equal to frame mod frame_rate; for an integer frame rate and frame >= 0
\* the four fields recompose to the input:
\* frame = (H * 3600 + M * 60 + S) * frame_rate + FF with 0 <= FF < frame_rate.
C23_Timecode ==
    LET d == time_display
    IN  /\ Decomposes(d.time_str, d.frame, d.frame_rate)
        /\ Decomposes(d.duration_str, d.end_frame, d.frame_rate)
        /\ Flt(d.time_str.frame_remainder) = RMod(Flt(d.frame), d.frame_rate)
        /\ Flt(d.duration_str.frame_remainder) =
              RMod(Flt(d.end_frame), d.frame_rate)

\* C23 as amended: the frame remainder reported is the integer part of
\* frame mod frame_rate, which is frame mod frame_rate itself when the frame
\* rate is an integer; the rest as stated.
C23_TimecodeTruncated ==
    LET d == time_display
        part(frame) ==
           LET m == RMod(Flt(frame), d.frame_rate)
           IN  CHOOSE n \in 0..Num(m) :
                  RLe(Flt(n), m) /\ RLt(m, Flt(n + 1))
    IN  /\ Decomposes(d.time_str, d.frame, d.frame_rate)
        /\ Decomposes(d.duration_str, d.end_frame, d.frame_rate)
        /\ d.time_str.frame_remainder = part(d.frame)
        /\ d.duration_str.frame_remainder = part(d.end_frame)
        /\ Den(d.frame_rate) = 1 =>
              /\ Flt(d.time_str.frame_remainder) =
                    RMod(Flt(d.frame), d.frame_rate)
              /\ Flt(d.duration_str.frame_remainder) =
                    RMod(Flt(d.end_frame), d.frame_rate)

\* frame 90061 at 24 frames per second is shown as 01:02:32:13
C23_Witness ==
    /\ time_display.frame_rate = Flt(24)
    /\ time_display.frame = 90061
    /\ time_display.time_str =
          [hours |-> 1, minutes |-> 2, seconds |-> 32, frame_remainder |-> 13]

\* frame 3 at 2.5 frames per second is shown as 00:00:01:00
C23_WitnessFraction ==
    /\ time_display.frame_rate = <<5, 2>>
    /\ time_display.frame = 3
    /\ time_display.time_str =
          [hours |-> 0, minutes |-> 0, seconds |-> 1, frame_remainder |-> 0]

\* C21: loading a file that lacks frame_rate or duration does not fail: the
\* frame rate becomes 30.0 and the duration becomes 3600 respectively, while
\* the fields that are present (frame rate, duration, markers, clips, the
\* parameters) are taken from the file; the load runs to its end whenever the
\* refresh of the display that follows it can.
C21_DefaultsOnLoad ==
    (event.op = "load_timeline"
       /\ {"frame_rate", "duration"} \ DOMAIN file[1] # {}) =>
       LET data == file[1]
       IN  /\ current_frame_rate =
                 IF "frame_rate" \in DOMAIN data THEN data.frame_rate ELSE Flt(30)
           /\ timeline_duration =
                 IF "duration" \in DOMAIN data THEN data.duration ELSE 3600
           /\ markers = data.markers
           /\ clips = data.clips
           /\ Keys(animation_parameters) =
                 {data.animation_parameters[i].name :
                     i \in 1..Len(data.animation_parameters)}
           /\ TimeDisplayOk(selected_parameter, animation_parameters,
                            current_frame_rate) => event.ok

\* a file without 'frame_rate' and with a duration of 2 has been loaded
C21_Witness ==
    /\ event.op = "load_timeline" /\ event.ok
    /\ file = <<FileNoFrameRate>>
    /\ current_frame_rate = Flt(30)
    /\ timeline_duration = 2
    /\ markers # <<>>

\* a file without 'duration' and with a frame rate of 25 has been loaded
C21_WitnessDuration ==
    /\ event.op = "load_timeline" /\ event.ok
    /\ file = <<FileNoDuration>>
    /\ current_frame_rate = Flt(25)
    /\ timeline_duration = 3600
    /\ clips # <<>>

(***************************************************************************)
(* Properties of the parameter store (SpecStore).                          *)
(***************************************************************************)
\* C13: renaming a parameter to a name that a different parameter uses fails
\* and leaves the store unchanged: both parameters exist under their names
\* with their keyframes, and the number of parameters is the same.
C13_DuplicateRenameRejected ==
    [][(/\ event'.op = "edit_parameter"
        /\ event'.dialog # <<>>
        /\ Strip(event'.dialog[1].name) # curselection[1]
        /\ Strip(event'.dialog[1].name) \in Keys(animation_parameters))
          => animation_parameters' = animation_parameters]_vars

\* the texts of a dialog are a name that is not blank and three numbers
\* with min < max and min <= default <= max
Accepted(t) ==
    /\ Strip(t.name) # ""
    /\ ParseFloat(t.min_val) # <<>>
    /\ ParseFloat(t.max_val) # <<>>
    /\ ParseFloat(t.default_val) # <<>>
    /\ RLt(ParseFloat(t.min_val)[1], ParseFloat(t.max_val)[1])
    /\ RLe(ParseFloat(t.min_val)[1], ParseFloat(t.default_val)[1])
    /\ RLe(ParseFloat(t.default_val)[1], ParseFloat(t.max_val)[1])

\* C14: adding a parameter under a name that is in the store fails and
\* leaves the store unchanged (range, default, color and keyframes of the
\* existing parameter included); under a fresh name it succeeds, the new
\* parameter has no keyframes and the others are unchanged.
C14_AddParameter ==
    [][(event'.op = "add_parameter" /\ Accepted(event'.dialog[1])) =>
          LET t == event'.dialog[1]
              n == Strip(t.name)
          IN  IF n \in Keys(animation_parameters)
              THEN /\ ~event'.ok
                   /\ animation_parameters' = animation_parameters
              ELSE /\ event'.ok
                   /\ Keys(animation_parameters') =
                         Keys(animation_parameters) \cup {n}
                   /\ Len(animation_parameters') = Len(animation_parameters) + 1
                   /\ Item(animation_parameters', n).keyframes = <<>>
                   /\ Item(animation_parameters', n).min_value = ParseFloat(t.min_val)[1]
                   /\ Item(animation_parameters', n).max_value = ParseFloat(t.max_val)[1]
                   /\ Item(animation_parameters', n).default_value =
                         ParseFloat(t.default_val)[1]
                   /\ \A m \in Keys(animation_parameters) :
                         Item(animation_parameters', m) = Item(animation_parameters, m)]_vars

\* an add under the name of a parameter that holds a keyframe and another
\* default was refused
C14_Witness ==
    /\ event.op = "add_parameter" /\ ~event.ok
    /\ event.dialog = <<DialogTexts("Opacity", "0", "50", "50")>>
    /\ "Opacity" \in Keys(animation_parameters)
    /\ Item(animation_parameters, "Opacity").keyframes # <<>>
    /\ Item(animation_parameters, "Opacity").default_value = Flt(100)

\* an add under a fresh name succeeded
C14_WitnessFresh ==
    /\ event.op = "add_parameter" /\ event.ok
    /\ event.dialog = <<DialogTexts(" Blur", "-5", "50", "0")>>
    /\ Item(animation_parameters, "Blur").keyframes = <<>>
    /\ Item(animation_parameters, "Blur").max_value = Flt(50)
    /\ Len(animation_parameters) = 6

\* C15: after remove_parameter the name is absent from the store (a lookup
\* of it fails) and the other parameters are unchanged; a removal that names
\* no parameter of the store changes nothing; a parameter added again under
\* the name has no keyframes and evaluates to its new default.
C15_RemoveParameter ==
    [][/\ (event'.op = "remove_parameter" /\ event'.ok) =>
             /\ curselection[1] \in Keys(animation_parameters)
             /\ curselection[1] \notin Keys(animation_parameters')
             /\ Keys(animation_parameters') =
                   Keys(animation_parameters) \ {curselection[1]}
             /\ Len(animation_parameters') = Len(animation_parameters) - 1
             /\ \A m \in Keys(animation_parameters') :
                   Item(animation_parameters', m) = Item(animation_parameters, m)
       /\ (event'.op = "remove_parameter" /\ ~event'.ok) =>
             animation_parameters' = animation_parameters
       /\ (event'.op = "add_parameter" /\ event'.ok) =>
             LET p == Item(animation_parameters', Strip(event'.dialog[1].name))
             IN  /\ p.keyframes = <<>>
                 /\ get_value_at_frame(p, Flt(current_frame')) =
                       ParseFloat(event'.dialog[1].default_val)[1]]_vars

\* "Opacity" has been removed while it was the selected parameter
C15_Witness ==
    /\ event.op = "remove_parameter" /\ event.ok
    /\ "Opacity" \notin Keys(animation_parameters)
    /\ "Opacity" \notin param_listbox
    /\ selected_parameter = <<>>
    /\ Len(animation_parameters) = 4

\* a removal of a name that the list box still shows after a failed load
\* and that is not in the store
C15_WitnessAbsent ==
    /\ event.op = "remove_parameter" /\ ~event.ok
    /\ curselection = <<"Opacity">>
    /\ Keys(animation_parameters) = {"Scale"}

\* "Opacity" has been added again with another default
C15_WitnessAddedAgain ==
    /\ event.op = "add_parameter" /\ event.ok
    /\ event.dialog = <<DialogTexts("Opacity", "0", "50", "50")>>
    /\ Item(animation_parameters, "Opacity").keyframes = <<>>
    /\ get_value_at_frame(Item(animation_parameters, "Opacity"), Flt(0)) = Flt(50)
    /\ Len(animation_parameters) = 5

\* C16: min_value < max_value holds for every parameter of the store in
\* every reachable state.
C16_RangeOrdered ==
    \A i \in 1..Len(animation_parameters) :
       RLt(animation_parameters[i].min_value, animation_parameters[i].max_value)

\* C17: an edit is refused with no change to the store when min >= max or
\* when the default is outside [min, max]; only a name with a triple
\* min < max, min <= default <= max replaces min_value, max_value and
\* default_value.
C17_EditValidated ==
    [][(event'.op = "edit_parameter" /\ event'.dialog # <<>>) =>
          LET t == event'.dialog[1]
          IN  IF Accepted(t)
              THEN LET p == Item(animation_parameters', Strip(t.name))
                   IN  /\ event'.ok
                       /\ p.min_value = ParseFloat(t.min_val)[1]
                       /\ p.max_value = ParseFloat(t.max_val)[1]
                       /\ p.default_value = ParseFloat(t.default_val)[1]
              ELSE /\ ~event'.ok
                   /\ animation_parameters' = animation_parameters]_vars

\* C18: a successful edit changes only min_value, max_value and
\* default_value (and the name when it is edited): the keyframes of the
\* parameter are exactly as before, also when a value lies outside the new
\* range, and so is its color.
C18_EditKeepsKeyframes ==
    [][(event'.op = "edit_parameter" /\ event'.ok) =>
          LET old == Item(animation_parameters, curselection[1])
              new == Item(animation_parameters', Strip(event'.dialog[1].name))
          IN  /\ new.keyframes = old.keyframes
              /\ new.color = old.color]_vars

\* the range of "Opacity" was edited to [0, 50] while it held the value 100
C18_Witness ==
    /\ event.op = "edit_parameter" /\ event.ok
    /\ event.dialog = <<DialogTexts("Opacity", "0", "50", "50")>>
    /\ Item(animation_parameters, "Opacity").max_value = Flt(50)
    /\ Item(animation_parameters, "Opacity").keyframes =
          <<Keyframe(0, Flt(100), "STEP")>>

\* C24: a rename to an unused name transfers the parameter intact: afterwards
\* the old name is absent, the new name maps to a parameter whose keyframe
\* sequence (frames, values, modes) is identical to the one before the
\* rename, and all other parameters are unchanged.
C24_RenameTransfers ==
    [][(/\ event'.op = "edit_parameter" /\ event'.ok
        /\ Strip(event'.dialog[1].name) # curselection[1]
        /\ Strip(event'.dialog[1].name) \notin Keys(animation_parameters)) =>
          LET old == curselection[1]
              new == Strip(event'.dialog[1].name)
          IN  /\ old \notin Keys(animation_parameters')
              /\ Keys(animation_parameters') =
                    (Keys(animation_parameters) \ {old}) \cup {new}
              /\ Len(animation_parameters') = Len(animation_parameters)
              /\ Item(animation_parameters', new).name = new
              /\ Item(animation_parameters', new).keyframes =
                    Item(animation_parameters, old).keyframes
              /\ \A m \in Keys(animation_parameters) \ {old} :
                    Item(animation_parameters', m) =
                       Item(animation_parameters, m)]_vars

\* "Opacity" has been renamed to "Blur" while it held a keyframe
C24_Witness ==
    /\ event.op = "edit_parameter" /\ event.ok
    /\ event.dialog = <<DialogTexts(" Blur", "-5", "50", "0")>>
    /\ "Opacity" \notin Keys(animation_parameters)
    /\ Len(animation_parameters) = 5
    /\ Item(animation_parameters, "Blur").keyframes =
          <<Keyframe(0, Flt(100), "STEP")>>

\* C26: in every reachable state selected_parameter is either None or the
\* name of a parameter currently in the store, after any sequence of select,
\* remove, rename (edit) and load operations, so the add-keyframe,
\* remove-keyframe and value-display operations never look up a missing name.
C26_SelectedInStore ==
    selected_parameter = <<>> \/ Selected \in Keys(animation_parameters)

(***************************************************************************)
(* Properties of a keyframe drag (Spec).                                   *)
(***************************************************************************)
\* C25: dragging a selected keyframe moves it rather than copying it: after
\* any sequence of drag events between selecting a keyframe and releasing
\* the mouse, the parameter holds no more keyframes than before the drag,
\* and the dragged keyframe exists only at the frame of the most recent drag
\* event (with the original interpolation mode): every keyframe at another
\* frame is one that the parameter held before the drag at a frame other
\* than the one of the dragged keyframe.
C25_DragMoves ==
    (dragging_keyframe # <<>> /\ event.op = "on_graph_drag") =>
       LET name == dragging_keyframe[1].param
           grabbed == dragging_keyframe[1].keyframe
           kfs == Item(animation_parameters, name).keyframes
           origin == drag_origin[1]
       IN  /\ Len(kfs) <= Len(origin)
           /\ \A i \in 1..Len(kfs) :
                 IF <<name, kfs[i].frame>> \in event.inserted
                 THEN kfs[i].interpolation = grabbed.interpolation
                 ELSE \E j \in 1..Len(origin) :
                         origin[j] = kfs[i] /\ origin[j].frame # grabbed.frame

=============================================================================
